---- MODULE Spec2Model ----
(***************************************************************************)
(* A model of the Tomasulo scheduling engine of src/utils/tomasuloCore.js  *)
(* (class TomasuloCore) together with the decoded instruction records of   *)
(* src/utils/instructionParser.js.                                         *)
(*                                                                         *)
(* JavaScript values are represented as follows.                           *)
(*   - a number is a record [s, n, d]: sign s (1 or -1), numerator n and   *)
(*     denominator d; d = 0 encodes Infinity (n = 1) and NaN (n = 0), and  *)
(*     n = 0, d = 1 is a zero whose sign is s.  Quotients are kept exact   *)
(*     (no binary rounding).                                               *)
(*   - null is a sentinel of the field's own shape (NullNum, NoTag, ...).  *)
(*   - a register name 'Rk' is the integer k (RegIndex is the parseInt of  *)
(*     the name with the 'R' removed).                                     *)
(*   - a station name such as 'ADD1' is the pair <<"ADD", 1>>.             *)
(*   - the three station pools are one sequence in the order of            *)
(*     Object.values(this.reservationStations).flat(): add, mult, load.    *)
(*   - an instruction object is a record whose field id is its identity.   *)
(***************************************************************************)
EXTENDS Integers, Sequences, FiniteSets, TLC

\* ------------------------------------------------------------------ bounds
MaxLen == 3
TermLen == 2
ApiMaxLen == 2
ApiMaxCycle == 6
MaxLoads == 2
MaxResets == 1
ErrLen == 2

\* ------------------------------------------------------- program constants
NumRegisters == 32
AddLatency == 2
MulLatency == 10
DivLatency == 40
LoadLatency == 2

\* --------------------------------------------------------------- numbers
NullNum == [s |-> 0, n |-> 0, d |-> 0]
NaN == [s |-> 1, n |-> 0, d |-> 0]
Zero == [s |-> 1, n |-> 0, d |-> 1]
Inf(sg) == [s |-> sg, n |-> 1, d |-> 0]

Abs(x) == IF x < 0 THEN -x ELSE x

RECURSIVE GCD(_, _)
GCD(a, b) == IF b = 0 THEN a ELSE GCD(b, a % b)

Norm(sg, num, den) ==
  IF num = 0 THEN [s |-> sg, n |-> 0, d |-> 1]
  ELSE LET g == GCD(num, den) IN [s |-> sg, n |-> num \div g, d |-> den \div g]

FromInt(i) == [s |-> IF i < 0 THEN -1 ELSE 1, n |-> Abs(i), d |-> 1]

IsNaN(a) == a.d = 0 /\ a.n = 0
IsInf(a) == a.d = 0 /\ a.n = 1
IsZero(a) == a.d # 0 /\ a.n = 0

NumNeg(a) == IF IsNaN(a) THEN a ELSE [a EXCEPT !.s = -a.s]

NumAdd(a, b) ==
  IF IsNaN(a) \/ IsNaN(b) THEN NaN
  ELSE IF IsInf(a) /\ IsInf(b) THEN (IF a.s = b.s THEN a ELSE NaN)
  ELSE IF IsInf(a) THEN a
  ELSE IF IsInf(b) THEN b
  ELSE LET num == a.s * a.n * b.d + b.s * b.n * a.d
           den == a.d * b.d
       IN IF num = 0
          THEN (IF IsZero(a) /\ IsZero(b) /\ a.s = -1 /\ b.s = -1
                THEN [Zero EXCEPT !.s = -1] ELSE Zero)
          ELSE Norm(IF num < 0 THEN -1 ELSE 1, Abs(num), den)

NumSub(a, b) == NumAdd(a, NumNeg(b))

NumMul(a, b) ==
  IF IsNaN(a) \/ IsNaN(b) THEN NaN
  ELSE IF (IsInf(a) /\ IsZero(b)) \/ (IsZero(a) /\ IsInf(b)) THEN NaN
  ELSE IF IsInf(a) \/ IsInf(b) THEN Inf(a.s * b.s)
  ELSE Norm(a.s * b.s, a.n * b.n, a.d * b.d)

NumDiv(a, b) ==
  IF IsNaN(a) \/ IsNaN(b) THEN NaN
  ELSE IF (IsInf(a) /\ IsInf(b)) \/ (IsZero(a) /\ IsZero(b)) THEN NaN
  ELSE IF IsInf(a) \/ IsZero(b) THEN Inf(a.s * b.s)
  ELSE IF IsInf(b) THEN [s |-> a.s * b.s, n |-> 0, d |-> 1]
  ELSE Norm(a.s * b.s, a.n * b.d, a.d * b.n)

\* ---------------------------------------------------------- instructions
InstructionType == {"ADD", "SUB", "MUL", "DIV", "LD", "SD"}

NullReg == -1
NullImm == -1
NullOp == "null"
NullCycles == -1
NoTag == <<"NONE", 0>>
NullInstr == [id |-> 0, type |-> NullOp, dest |-> NullReg, src1 |-> NullReg,
              src2 |-> NullReg, immediate |-> NullImm]

Instruction(type, dest, src1, src2, immediate) ==
  [id |-> 0, type |-> type, dest |-> dest, src1 |-> src1, src2 |-> src2,
   immediate |-> immediate]

parseInstruction(opcode, p1, p2, p3) ==
  IF opcode \in {"ADD", "SUB", "MUL", "DIV"}
  THEN Instruction(opcode, p1, p2, p3, NullImm)
  ELSE Instruction(opcode, p1, NullReg, NullReg, p2)

RegIndex(r) == r

\* The decoded lines programs are made of.
InstrPool ==
  { parseInstruction("LD", 1, 0, 0),
    parseInstruction("LD", 2, 1, 0),
    parseInstruction("LD", 1, 3, 0),
    parseInstruction("ADD", 2, 1, 1),
    parseInstruction("SUB", 2, 1, 2),
    parseInstruction("MUL", 3, 2, 2),
    parseInstruction("MUL", 1, 2, 2),
    parseInstruction("DIV", 2, 1, 2),
    parseInstruction("SD", 1, 0, 0) }

\* Lines the decoder accepts although they name no register of the file:
\* a source R32, a destination R32, and a line with no operands at all
\* (parts[1] undefined: no destination).
MalformedPool ==
  { parseInstruction("ADD", 2, 32, 1),
    parseInstruction("ADD", 32, 1, 1),
    parseInstruction("LD", NullReg, NullImm, 0) }

\* parseInstructions: one fresh object per line, told apart by position.
parseInstructions(lines) ==
  [i \in DOMAIN lines |-> [lines[i] EXCEPT !.id = i]]

SeqsUpTo(S, n) == UNION { [1..k -> S] : k \in 1..n }

Programs == { parseInstructions(l) : l \in SeqsUpTo(InstrPool, MaxLen) }
TermPrograms == { parseInstructions(l) : l \in SeqsUpTo(InstrPool, TermLen) }
ErrPrograms ==
  { parseInstructions(l) : l \in SeqsUpTo(InstrPool \cup MalformedPool, ErrLen) }
ApiPrograms == { parseInstructions(l) : l \in SeqsUpTo(InstrPool, ApiMaxLen) }

\* ------------------------------------------------------- configuration
DefaultConfig == [addUnits |-> 3, multUnits |-> 2, loadUnits |-> 2]
SmallConfig == [addUnits |-> 1, multUnits |-> 1, loadUnits |-> 1]
Configs == {DefaultConfig, SmallConfig}
DefaultMemory == [a \in {0, 1, 2} |-> CASE a = 0 -> 5 [] a = 1 -> 10 [] a = 2 -> 15]

\* Division steps of the longest run of a program of n instructions.
MaxCycle == MaxLen * (DivLatency + 1) + 2

\* ------------------------------------------------------------- stations
ReservationStation(name, type) ==
  [name |-> name, type |-> type, busy |-> FALSE, op |-> NullOp,
   vj |-> NullNum, vk |-> NullNum, qj |-> NoTag, qk |-> NoTag,
   dest |-> NullReg, instruction |-> NullInstr, remainingCycles |-> NullCycles,
   immediate |-> NullImm, executing |-> FALSE]

clear(station) == ReservationStation(station.name, station.type)

RegisterStatus == [value |-> Zero, qi |-> NoTag]

NewRegisters == [r \in 0..(NumRegisters - 1) |-> RegisterStatus]

NewStations(config) ==
  [i \in 1..config.addUnits |-> ReservationStation(<<"ADD", i>>, "ADD")]
  \o [i \in 1..config.multUnits |-> ReservationStation(<<"MULT", i>>, "MULT")]
  \o [i \in 1..config.loadUnits |-> ReservationStation(<<"LOAD", i>>, "LOAD")]

\* ---------------------------------------------------------------- state
VARIABLES
  registers,            \* this.registers
  reservationStations,  \* this.reservationStations, flattened
  currentCycle,         \* this.currentCycle
  instructionQueue,     \* this.instructionQueue
  memory,               \* this.memory
  executedInstructions, \* this.executedInstructions (identities)
  config,               \* the pool sizes given to the constructor
  program,              \* the instruction objects the caller holds
  lastOp,               \* history: the last call made
  loads,                \* history: loadInstructions() calls so far
  resets,               \* history: reset() calls so far
  issueLog,             \* history: [id, cycle, station] per successful issue
  wbLog,                \* history: one record per writeback, in order
  readyAt,              \* history: per busy station, the step in which its
                        \*          operands became resolved (0: not yet)
  wokenBy,              \* history: per station, index of the station whose
                        \*          broadcast resolved its last tag (0: none)
  prev,                 \* history: the engine state before the last call
  calls                 \* history: the calls made since construction or the
                        \*          last reset(), in order

engine == <<registers, reservationStations, currentCycle, instructionQueue,
            memory, executedInstructions>>
vars == <<registers, reservationStations, currentCycle, instructionQueue,
          memory, executedInstructions, config, program, lastOp, loads, resets,
          issueLog, wbLog, readyAt, wokenBy, prev, calls>>

\* ------------------------------------------------------------- the engine
StationIndices(rs) == 1..Len(rs)

PoolOf(type) ==
  IF type \in {"ADD", "SUB"} THEN "ADD"
  ELSE IF type \in {"MUL", "DIV"} THEN "MULT"
  ELSE "LOAD"

\* Variant: the first station of the pool, idle or not.
getAvailableStation_ignoreBusy(rs, type) ==
  LET pool == { i \in StationIndices(rs) : rs[i].type = type }
  IN IF pool = {} THEN 0 ELSE CHOOSE i \in pool : \A j \in pool : i <= j

\* Variant: the last idle station of the pool.
getAvailableStation_last(rs, type) ==
  LET free == { i \in StationIndices(rs) : rs[i].type = type /\ ~rs[i].busy }
  IN IF free = {} THEN 0 ELSE CHOOSE i \in free : \A j \in free : i >= j

\* Index of the first idle station of the pool, 0 when there is none.
getAvailableStation(rs, type) ==
  LET free == { i \in StationIndices(rs) : rs[i].type = type /\ ~rs[i].busy }
  IN IF free = {} THEN 0 ELSE CHOOSE i \in free : \A j \in free : i <= j

\* Variant: no instruction counts as completed.
alreadyExecuted_never(instruction, executed) == FALSE

\* this.executedInstructions.has(instruction)
alreadyExecuted(instruction, executed) == instruction.id \in executed

ValidReg(r) == r \in 0..(NumRegisters - 1)

\* Variant: the value of the register is read whether or not it has a tag.
capture_value(reg) == [q |-> NoTag, v |-> reg.value]

\* What issue() takes from a source register: its tag if it has one (q),
\* its value otherwise (v).
capture(reg) ==
  IF reg.qi # NoTag THEN [q |-> reg.qi, v |-> NullNum]
  ELSE [q |-> NoTag, v |-> reg.value]

\* issue(instruction): [ok, threw, registers, rs, station].  threw: a
\* TypeError left issue() where a register entry or the destination name is
\* undefined; rs then holds what had been assigned to the station so far.
issue(instruction, regs, rs, executed) ==
  LET failed == [ok |-> FALSE, threw |-> FALSE, registers |-> regs, rs |-> rs,
                 station |-> 0]
      i == getAvailableStation(rs, PoolOf(instruction.type))
      thrown(st) == [ok |-> FALSE, threw |-> TRUE, registers |-> regs,
                     rs |-> [rs EXCEPT ![i] = st], station |-> i]
  IN IF alreadyExecuted(instruction, executed) THEN failed
     ELSE IF i = 0 THEN failed
     ELSE
       LET s0 == [rs[i] EXCEPT !.busy = TRUE, !.op = instruction.type,
                               !.instruction = instruction,
                               !.dest = instruction.dest,
                               !.immediate = instruction.immediate,
                               !.remainingCycles = NullCycles]
           bad1 == instruction.src1 # NullReg
                     /\ ~ValidReg(RegIndex(instruction.src1))
           s1 == IF instruction.src1 = NullReg \/ bad1 THEN s0
                 ELSE LET reg1 == capture(regs[RegIndex(instruction.src1)])
                      IN IF reg1.q # NoTag THEN [s0 EXCEPT !.qj = reg1.q]
                         ELSE [s0 EXCEPT !.vj = reg1.v]
           bad2 == instruction.src2 # NullReg
                     /\ ~ValidReg(RegIndex(instruction.src2))
           s2 == IF instruction.src2 = NullReg \/ bad2 THEN s1
                 ELSE LET reg2 == capture(regs[RegIndex(instruction.src2)])
                      IN IF reg2.q # NoTag THEN [s1 EXCEPT !.qk = reg2.q]
                         ELSE [s1 EXCEPT !.vk = reg2.v]
       IN IF bad1 THEN thrown(s0)
          ELSE IF bad2 THEN thrown(s1)
          ELSE IF instruction.dest = NullReg
                    \/ ~ValidReg(RegIndex(instruction.dest))
          THEN thrown(s2)
          ELSE [ok |-> TRUE, threw |-> FALSE,
                registers |-> [regs EXCEPT
                                 ![RegIndex(instruction.dest)].qi = rs[i].name],
                rs |-> [rs EXCEPT ![i] = s2],
                station |-> i]

\* Variant: the switch without its DIV case.
StartCycles_noDiv(op, old) ==
  CASE op \in {"ADD", "SUB"} -> AddLatency
    [] op = "MUL" -> MulLatency
    [] op = "LD" -> LoadLatency
    [] OTHER -> old

\* The switch on the operation that assigns the fixed latency; an operation
\* with no case leaves remainingCycles as it was.
StartCycles(op, old) ==
  CASE op \in {"ADD", "SUB"} -> AddLatency
    [] op = "MUL" -> MulLatency
    [] op = "DIV" -> DivLatency
    [] op = "LD" -> LoadLatency
    [] OTHER -> old

\* Variant: execute without the test of station.busy.
executeStation_idleToo(station) ==
  IF station.qj = NoTag /\ station.qk = NoTag
  THEN IF ~station.executing
       THEN [station EXCEPT !.remainingCycles = StartCycles(station.op, @),
                            !.executing = TRUE]
       ELSE IF station.remainingCycles > 0
       THEN [station EXCEPT !.remainingCycles = @ - 1]
       ELSE station
  ELSE station

\* Variant: the step that starts a station also counts it down once.
executeStation_eagerCount(station) ==
  IF station.busy /\ station.qj = NoTag /\ station.qk = NoTag
  THEN IF ~station.executing
       THEN [station EXCEPT !.remainingCycles = StartCycles(station.op, @) - 1,
                            !.executing = TRUE]
       ELSE IF station.remainingCycles > 0
       THEN [station EXCEPT !.remainingCycles = @ - 1]
       ELSE station
  ELSE station

executeStation(station) ==
  IF station.busy /\ station.qj = NoTag /\ station.qk = NoTag
  THEN IF ~station.executing
       THEN [station EXCEPT !.remainingCycles = StartCycles(station.op, @),
                            !.executing = TRUE]
       ELSE IF station.remainingCycles > 0
       THEN [station EXCEPT !.remainingCycles = @ - 1]
       ELSE station
  ELSE station

execute(rs) == [i \in StationIndices(rs) |-> executeStation(rs[i])]

\* The number an arithmetic operator makes of an operand: null counts as 0.
ToNumber(v) == IF v = NullNum THEN Zero ELSE v

\* Variant: an address with no entry reads as address 0.
MemoryGet_wrap(mem, address) ==
  IF address \in DOMAIN mem THEN mem[address] ELSE mem[0]

\* this.memory.get(parseInt(station.immediate)) || 0
MemoryGet(mem, address) ==
  IF address \in DOMAIN mem /\ mem[address] # 0 THEN mem[address] ELSE 0

\* Variant: the MUL case adds.
Result_mulAsAdd(station, mem) ==
  CASE station.op = "ADD" -> NumAdd(ToNumber(station.vj), ToNumber(station.vk))
    [] station.op = "SUB" -> NumSub(ToNumber(station.vj), ToNumber(station.vk))
    [] station.op = "MUL" -> NumAdd(ToNumber(station.vj), ToNumber(station.vk))
    [] station.op = "DIV" -> NumDiv(ToNumber(station.vj), ToNumber(station.vk))
    [] station.op = "LD" -> FromInt(MemoryGet(mem, station.immediate))

Result(station, mem) ==
  CASE station.op = "ADD" -> NumAdd(ToNumber(station.vj), ToNumber(station.vk))
    [] station.op = "SUB" -> NumSub(ToNumber(station.vj), ToNumber(station.vk))
    [] station.op = "MUL" -> NumMul(ToNumber(station.vj), ToNumber(station.vk))
    [] station.op = "DIV" -> NumDiv(ToNumber(station.vj), ToNumber(station.vk))
    [] station.op = "LD" -> FromInt(MemoryGet(mem, station.immediate))

\* Variant: the broadcast fills the operands and leaves the start to execute.
broadcastTo_noPromote(otherStation, name, result) ==
  IF ~otherStation.busy THEN otherStation
  ELSE
    LET o1 == IF otherStation.qj = name
              THEN [otherStation EXCEPT !.vj = result, !.qj = NoTag]
              ELSE otherStation
    IN IF otherStation.qk = name
       THEN [o1 EXCEPT !.vk = result, !.qk = NoTag] ELSE o1

\* Variant: the broadcast looks at the second operand only.
broadcastTo_onlyK(otherStation, name, result) ==
  IF ~otherStation.busy THEN otherStation
  ELSE
    LET hitK == otherStation.qk = name
        o2 == IF hitK THEN [otherStation EXCEPT !.vk = result, !.qk = NoTag]
              ELSE otherStation
    IN IF hitK /\ o2.qj = NoTag /\ o2.qk = NoTag /\ ~o2.executing
       THEN [o2 EXCEPT !.executing = TRUE,
                       !.remainingCycles = StartCycles(o2.op, @)]
       ELSE o2

\* Variant: the broadcast looks at the first operand only.
broadcastTo_onlyJ(otherStation, name, result) ==
  IF ~otherStation.busy THEN otherStation
  ELSE
    LET hitJ == otherStation.qj = name
        o1 == IF hitJ THEN [otherStation EXCEPT !.vj = result, !.qj = NoTag]
              ELSE otherStation
    IN IF hitJ /\ o1.qj = NoTag /\ o1.qk = NoTag /\ ~o1.executing
       THEN [o1 EXCEPT !.executing = TRUE,
                       !.remainingCycles = StartCycles(o1.op, @)]
       ELSE o1

\* The inner forEach of writeback applied to one station.
broadcastTo(otherStation, name, result) ==
  IF ~otherStation.busy THEN otherStation
  ELSE
    LET hitJ == otherStation.qj = name
        hitK == otherStation.qk = name
        o1 == IF hitJ THEN [otherStation EXCEPT !.vj = result, !.qj = NoTag]
              ELSE otherStation
        o2 == IF hitK THEN [o1 EXCEPT !.vk = result, !.qk = NoTag] ELSE o1
    IN IF (hitJ \/ hitK) /\ o2.qj = NoTag /\ o2.qk = NoTag /\ ~o2.executing
       THEN [o2 EXCEPT !.executing = TRUE,
                       !.remainingCycles = StartCycles(o2.op, @)]
       ELSE o2

\* Variant: the register takes the result and keeps its tag.
commit_keepTag(regs, station, result) ==
  [regs EXCEPT ![RegIndex(station.dest)].value = result]

\* Variant: the register is written only while it still names the station.
commit_ifCurrent(regs, station, result) ==
  IF regs[RegIndex(station.dest)].qi = station.name
  THEN [regs EXCEPT ![RegIndex(station.dest)] = [value |-> result, qi |-> NoTag]]
  ELSE regs

\* The update of the destination register at writeback.
commit(regs, station, result) ==
  [regs EXCEPT ![RegIndex(station.dest)] = [value |-> result, qi |-> NoTag]]

CanWriteback(station) ==
  station.busy /\ station.executing /\ station.remainingCycles = 0

\* The outer forEach of writeback from station i on; w carries registers, rs,
\* executed, and the history of this phase (retired records, wakers).  A
\* station whose destination names no register of the file ends the forEach
\* with a TypeError (threw), the stations before it written back.
RECURSIVE writebackFrom(_, _, _, _)
writebackFrom(i, w, mem, cycle) ==
  IF i > Len(w.rs) THEN w
  ELSE IF ~CanWriteback(w.rs[i]) THEN writebackFrom(i + 1, w, mem, cycle)
  ELSE IF w.rs[i].dest = NullReg \/ ~ValidReg(RegIndex(w.rs[i].dest))
  THEN [w EXCEPT !.threw = TRUE]
  ELSE
    LET station == w.rs[i]
        result == Result(station, mem)
        regs1 == commit(w.registers, station, result)
        rs1 == [j \in StationIndices(w.rs) |->
                  broadcastTo(w.rs[j], station.name, result)]
        woke == { j \in StationIndices(w.rs) :
                    /\ w.rs[j].busy
                    /\ w.rs[j].qj # NoTag \/ w.rs[j].qk # NoTag
                    /\ rs1[j].qj = NoTag /\ rs1[j].qk = NoTag }
    IN writebackFrom(i + 1,
         [registers |-> regs1,
          rs |-> [rs1 EXCEPT ![i] = clear(rs1[i])],
          executed |-> w.executed \cup {station.instruction.id},
          retired |-> Append(w.retired,
                        [id |-> station.instruction.id, cycle |-> cycle,
                         station |-> i, op |-> station.op,
                         dest |-> station.dest, result |-> result]),
          waker |-> [j \in StationIndices(w.rs) |->
                       IF j \in woke THEN i ELSE w.waker[j]],
          threw |-> FALSE],
         mem, cycle)

writeback(regs, rs, executed, mem, cycle) ==
  writebackFrom(1, [registers |-> regs, rs |-> rs, executed |-> executed,
                    retired |-> <<>>,
                    waker |-> [j \in StationIndices(rs) |-> 0],
                    threw |-> FALSE], mem, cycle)

Quiescent ==
  /\ Len(instructionQueue) = 0
  /\ \A i \in StationIndices(reservationStations) : ~reservationStations[i].busy

Snapshot ==
  [registers |-> registers, reservationStations |-> reservationStations,
   currentCycle |-> currentCycle, instructionQueue |-> instructionQueue,
   memory |-> memory, executedInstructions |-> executedInstructions]

\* Variant: Array.prototype.pop, the queue without its last element.
shift_pop(queue) == SubSeq(queue, 1, Len(queue) - 1)

\* Array.prototype.shift: the queue without its first element.
shift(queue) == Tail(queue)

Resolved(station) ==
  station.busy /\ station.qj = NoTag /\ station.qk = NoTag

\* Variant: the counter advances by two.
nextCycle_skip(cycle) == cycle + 2

\* this.currentCycle++
nextCycle(cycle) == cycle + 1

\* The issue phase of step(): the head of the queue, if any, is offered.
issueHead(queue, regs, rs, executed) ==
  IF Len(queue) > 0
  THEN issue(Head(queue), regs, rs, executed)
  ELSE [ok |-> FALSE, threw |-> FALSE, registers |-> regs, rs |-> rs,
        station |-> 0]

IssueHead ==
  issueHead(instructionQueue, registers, reservationStations,
            executedInstructions)

\* Variant: writeback runs before execute.
afterIssue_writebackFirst(e, iss, cycle) ==
  IF iss.threw
  THEN [registers |-> iss.registers, rs |-> iss.rs,
        executed |-> e.executedInstructions, retired |-> <<>>,
        waker |-> [j \in StationIndices(iss.rs) |-> 0], threw |-> FALSE]
  ELSE LET wb == writeback(iss.registers, iss.rs, e.executedInstructions,
                           e.memory, cycle)
       IN [wb EXCEPT !.rs = execute(wb.rs)]

\* The rest of step() after the issue phase returned iss: execute and
\* writeback, or nothing at all where the issue threw.
afterIssue(e, iss, cycle) ==
  IF iss.threw
  THEN [registers |-> iss.registers, rs |-> iss.rs,
        executed |-> e.executedInstructions, retired |-> <<>>,
        waker |-> [j \in StationIndices(iss.rs) |-> 0], threw |-> FALSE]
  ELSE writeback(iss.registers, execute(iss.rs), e.executedInstructions,
                 e.memory, cycle)

\* Variant: the head leaves the queue whether or not it was issued.
stepped_dropHead(e, iss, wb, cycle) ==
  [registers |-> wb.registers,
   reservationStations |-> wb.rs,
   currentCycle |-> cycle,
   instructionQueue |-> IF Len(e.instructionQueue) > 0
                        THEN shift(e.instructionQueue)
                        ELSE e.instructionQueue,
   memory |-> e.memory,
   executedInstructions |-> wb.executed]

\* The engine fields step() leaves.
stepped(e, iss, wb, cycle) ==
  [registers |-> wb.registers,
   reservationStations |-> wb.rs,
   currentCycle |-> cycle,
   instructionQueue |-> IF iss.ok THEN shift(e.instructionQueue)
                        ELSE e.instructionQueue,
   memory |-> e.memory,
   executedInstructions |-> wb.executed]

\* step() on the engine fields e.
stepOf(e) ==
  LET cycle == nextCycle(e.currentCycle)
      iss == issueHead(e.instructionQueue, e.registers, e.reservationStations,
                       e.executedInstructions)
  IN stepped(e, iss, afterIssue(e, iss, cycle), cycle)

\* step() as a call on the engine, with the history it leaves.
StepEngine ==
  \E cycle \in {nextCycle(currentCycle)} :
  \E iss \in {IssueHead} :
  \E wb \in {afterIssue(Snapshot, iss, cycle)} :
  \E r \in {stepped(Snapshot, iss, wb, cycle)} :
     /\ currentCycle' = cycle
     /\ instructionQueue' = r.instructionQueue
     /\ registers' = r.registers
     /\ reservationStations' = r.reservationStations
     /\ executedInstructions' = r.executedInstructions
     /\ memory' = r.memory
     /\ lastOp' = IF iss.threw THEN "throw"
                  ELSE IF wb.threw THEN "throwWb" ELSE "step"
     /\ calls' = Append(calls, "step")
     /\ issueLog' = IF iss.ok
                    THEN Append(issueLog, [id |-> Head(instructionQueue).id,
                                           cycle |-> cycle,
                                           station |-> iss.station])
                    ELSE issueLog
     /\ wbLog' = wbLog \o [k \in DOMAIN wb.retired |->
                             [id |-> wb.retired[k].id,
                              cycle |-> wb.retired[k].cycle,
                              station |-> wb.retired[k].station,
                              op |-> wb.retired[k].op,
                              dest |-> wb.retired[k].dest,
                              result |-> wb.retired[k].result,
                              ready |-> readyAt[wb.retired[k].station]]]
     /\ readyAt' = [j \in StationIndices(reservationStations) |->
                      IF iss.threw THEN readyAt[j]
                      ELSE IF ~wb.rs[j].busy THEN 0
                      ELSE IF Resolved(wb.rs[j])
                              /\ ~Resolved(reservationStations[j])
                      THEN cycle
                      ELSE readyAt[j]]
     /\ wokenBy' = [j \in StationIndices(reservationStations) |->
                      IF wb.waker[j] # 0 THEN wb.waker[j]
                      ELSE IF iss.ok /\ j = iss.station THEN 0
                      ELSE wokenBy[j]]

NoHistory(rs) == [j \in StationIndices(rs) |-> 0]

Constructed(c, p) ==
  /\ config = c
  /\ program = p
  /\ registers = NewRegisters
  /\ reservationStations = NewStations(c)
  /\ currentCycle = 0
  /\ instructionQueue = <<>>
  /\ memory = DefaultMemory
  /\ executedInstructions = {}
  /\ lastOp = "new"
  /\ loads = 0
  /\ resets = 0
  /\ issueLog = <<>>
  /\ wbLog = <<>>
  /\ readyAt = NoHistory(NewStations(c))
  /\ wokenBy = NoHistory(NewStations(c))
  /\ calls = <<>>
  /\ prev = [registers |-> NewRegisters, reservationStations |-> NewStations(c),
             currentCycle |-> 0, instructionQueue |-> << >>,
             memory |-> DefaultMemory, executedInstructions |-> {}]

\* new TomasuloCore(config) followed by initializeMemory(config.memory).
Init == \E c \in Configs, p \in ApiPrograms : Constructed(c, p)

RunInit == \E c \in Configs, p \in Programs : Constructed(c, p)

ErrInit == \E c \in Configs, p \in ErrPrograms : Constructed(c, p)

Step ==
  /\ currentCycle < ApiMaxCycle
  /\ StepEngine
  /\ prev' = Snapshot
  /\ UNCHANGED <<config, program, loads, resets>>

\* handleStep: loads first, and does not step an engine that is done.
RunStep ==
  /\ loads > 0
  /\ ~Quiescent
  /\ currentCycle < MaxCycle
  /\ StepEngine
  /\ prev' = Snapshot
  /\ UNCHANGED <<config, program, loads, resets>>

\* Variant: reset() that leaves the stations as they are.
resetStations_keep(rs) == rs

\* The forEach of reset() over the stations.
resetStations(rs) == [i \in StationIndices(rs) |-> clear(rs[i])]

\* Variant: reset() that keeps the set of completed instructions.
resetExecuted_keep(executed) == executed

\* this.executedInstructions.clear()
resetExecuted(executed) == {}

Reset ==
  /\ resets < MaxResets
  /\ registers' = NewRegisters
  /\ reservationStations' = resetStations(reservationStations)
  /\ currentCycle' = 0
  /\ instructionQueue' = <<>>
  /\ executedInstructions' = resetExecuted(executedInstructions)
  /\ lastOp' = "reset"
  /\ resets' = resets + 1
  /\ prev' = Snapshot
  /\ issueLog' = <<>>
  /\ wbLog' = <<>>
  /\ readyAt' = NoHistory(reservationStations)
  /\ wokenBy' = NoHistory(reservationStations)
  /\ calls' = <<>>
  /\ UNCHANGED <<memory, config, program, loads>>

loadInstructions(instructions) ==
  /\ instructionQueue' = instructions
  /\ lastOp' = "load"
  /\ loads' = loads + 1
  /\ prev' = Snapshot
  /\ calls' = Append(calls, "load")
  /\ UNCHANGED <<registers, reservationStations, currentCycle, memory,
                 executedInstructions, config, program, resets, issueLog,
                 wbLog, readyAt, wokenBy>>

LoadInstructions ==
  /\ loads < MaxLoads
  /\ loadInstructions(program)

RunLoad ==
  /\ loads = 0
  /\ loadInstructions(program)

Next == LoadInstructions \/ Step \/ Reset

Spec == Init /\ [][Next]_vars

RunNext == RunLoad \/ RunStep

RunSpec == RunInit /\ [][RunNext]_vars

\* Runs of programs that may hold lines naming no register of the file;
\* handleStep catches the error and the next click calls step() again.
ErrSpec == ErrInit /\ [][RunNext]_vars

\* The caller keeps calling: handleStep is invoked until the engine is done.
TermInit == \E c \in Configs, p \in TermPrograms : Constructed(c, p)

FairRunSpec == TermInit /\ [][RunNext]_vars /\ WF_vars(RunNext)

\* ------------------------------------------------------- shared notions
Stations == StationIndices(reservationStations)
Ids(seq) == [k \in DOMAIN seq |-> seq[k].id]
Types(p) == { p[k].type : k \in DOMAIN p }
Done == loads > 0 /\ Quiescent
Holds(i, id) ==
  reservationStations[i].busy /\ reservationStations[i].instruction.id = id
Value(r) == registers[r].value

\* The latencies the documentation gives.
Latency(op) ==
  CASE op \in {"ADD", "SUB"} -> 2
    [] op = "MUL" -> 10
    [] op = "DIV" -> 40
    [] op = "LD" -> 2
Timed == {"ADD", "SUB", "MUL", "DIV", "LD"}

\* Sequential execution of a program in queue order on a register file.
RECURSIVE Sequential(_, _, _)
Sequential(p, regs, mem) ==
  IF p = <<>> THEN regs
  ELSE LET in == Head(p)
           v == CASE in.type = "ADD" -> NumAdd(regs[in.src1], regs[in.src2])
                  [] in.type = "SUB" -> NumSub(regs[in.src1], regs[in.src2])
                  [] in.type = "MUL" -> NumMul(regs[in.src1], regs[in.src2])
                  [] in.type = "DIV" -> NumDiv(regs[in.src1], regs[in.src2])
                  [] in.type = "LD" ->
                       FromInt(IF in.immediate \in DOMAIN mem
                               THEN mem[in.immediate] ELSE 0)
                  [] OTHER -> regs[in.dest]
       IN Sequential(Tail(p), [regs EXCEPT ![in.dest] = v], mem)

ZeroFile == [r \in 0..31 |-> Zero]

\* ----------------------------------------------------------------- C1
\* C1: once the engine is quiescent after running a program of
\* Add/Sub/Mul/Load instructions, every register holds the value that
\* sequential execution of the program in queue order gives.
C1_HazardFreedom ==
  (Done /\ Types(program) \subseteq {"ADD", "SUB", "MUL", "LD"})
    => \A r \in 0..31 : Value(r) = Sequential(program, ZeroFile, memory)[r]

\* ----------------------------------------------------------------- C2
ExampleProgram ==
  parseInstructions(<< parseInstruction("LD", 1, 0, 0),
                       parseInstruction("ADD", 2, 1, 1),
                       parseInstruction("MUL", 3, 2, 2) >>)
IsExample ==
  /\ program = ExampleProgram
  /\ config = DefaultConfig
  /\ memory = DefaultMemory
  /\ loads > 0

\* C2: the documented example ends with R1=5, R2=10, R3=100; the load commits
\* two steps after its issue step; the ADD is not executing at the end of any
\* step before the load has written back.
C2_Example ==
  IsExample =>
    /\ Quiescent =>
         /\ Value(1) = FromInt(5)
         /\ Value(2) = FromInt(10)
         /\ Value(3) = FromInt(100)
         /\ \E k \in DOMAIN wbLog : wbLog[k].id = 1
    /\ \A k \in DOMAIN wbLog : wbLog[k].id = 1 =>
         /\ wbLog[k].dest = 1
         /\ \E m \in DOMAIN issueLog :
              issueLog[m].id = 1 /\ wbLog[k].cycle = issueLog[m].cycle + 2
    /\ \A i \in Stations :
         (Holds(i, 2) /\ reservationStations[i].executing)
           => \E k \in DOMAIN wbLog : wbLog[k].id = 1

C2_Witness == IsExample /\ Quiescent /\ Len(wbLog) = 3

\* ----------------------------------------------------------------- C3
\* C3: instructions leave the queue in FIFO order, at most one per step: the
\* instructions issued so far followed by those still queued are the loaded
\* program, and successive issues happen in different, increasing steps.
C3_IssueOrder ==
  loads > 0 =>
    /\ Ids(issueLog) \o Ids(instructionQueue) = Ids(program)
    /\ \A k \in DOMAIN issueLog : \A m \in DOMAIN issueLog :
         k < m => issueLog[k].cycle < issueLog[m].cycle

\* A step has just stalled on a head whose pool is full while the instruction
\* behind it has an idle station of its own pool.
C3_Witness ==
  /\ lastOp = "step"
  /\ Len(instructionQueue) >= 2
  /\ prev.instructionQueue = instructionQueue
  /\ getAvailableStation(prev.reservationStations,
                         PoolOf(instructionQueue[1].type)) = 0
  /\ getAvailableStation(prev.reservationStations,
                         PoolOf(instructionQueue[2].type)) # 0

\* ----------------------------------------------------------------- C4
LastIssue(i) ==
  LET ks == { k \in DOMAIN issueLog : issueLog[k].station = i }
  IN IF ks = {} THEN 0 ELSE CHOOSE k \in ks : \A m \in ks : m <= k

Producers(r) ==
  { i \in Stations : reservationStations[i].busy
                     /\ reservationStations[i].dest = r }

\* C4: every register that is the destination of a busy station carries the
\* tag of the most recently issued of those stations.
C4_RenamingInvariant ==
  \A r \in 0..31 :
    Producers(r) # {} =>
      \E i \in Producers(r) :
        /\ \A j \in Producers(r) : LastIssue(j) <= LastIssue(i)
        /\ registers[r].qi = reservationStations[i].name

\* ----------------------------------------------------------------- C5
\* C5: a station whose operands became resolved in step N is executing at the
\* end of steps N..N+L-1 with remaining latency L, L-1, ..., 1 and writes back
\* and is idle in step N+L; a station whose operands are not resolved has not
\* started counting, however long ago it was issued.
C5_LatencyFidelity ==
  /\ \A i \in Stations :
       LET s == reservationStations[i]
           age == currentCycle - readyAt[i]
       IN (s.busy /\ s.op \in Timed) =>
            IF readyAt[i] # 0
            THEN /\ s.executing
                 /\ age \in 0..(Latency(s.op) - 1)
                 /\ s.remainingCycles = Latency(s.op) - age
            ELSE /\ ~s.executing
                 /\ s.remainingCycles = NullCycles
                 /\ s.qj # NoTag \/ s.qk # NoTag
  /\ \A k \in DOMAIN wbLog :
       wbLog[k].op \in Timed =>
         /\ wbLog[k].ready # 0
         /\ wbLog[k].cycle = wbLog[k].ready + Latency(wbLog[k].op)
         /\ wbLog[k].cycle = currentCycle
              => ~reservationStations[wbLog[k].station].busy

\* A division that waited for an operand after its issue has written back.
C5_Witness ==
  \E k \in DOMAIN wbLog : \E m \in DOMAIN issueLog :
    /\ wbLog[k].op = "DIV"
    /\ issueLog[m].id = wbLog[k].id
    /\ wbLog[k].ready > issueLog[m].cycle

\* ----------------------------------------------------------------- C6
\* C6: a station whose last operand tag was resolved by a broadcast in step N
\* is executing with its full latency L at the end of step N and has L-1 left
\* at the end of step N+1, wherever the broadcasting station stands in the
\* iteration order.
C6_WakeUpSameCycle ==
  \A i \in Stations :
    LET s == reservationStations[i]
    IN (s.busy /\ s.op \in Timed /\ wokenBy[i] # 0) =>
         /\ readyAt[i] # 0
         /\ currentCycle = readyAt[i] =>
              s.executing /\ s.remainingCycles = Latency(s.op)
         /\ currentCycle = readyAt[i] + 1 =>
              s.executing /\ s.remainingCycles = Latency(s.op) - 1

\* One station was woken by a station after it in the iteration order, and
\* another, now one step past its wake-up, by a station before it.
C6_Witness ==
  \E i \in Stations : \E j \in Stations :
    /\ wokenBy[i] > i
    /\ wokenBy[j] \in 1..(j - 1)
    /\ reservationStations[j].busy
    /\ currentCycle = readyAt[j] + 1

\* ----------------------------------------------------------------- C7
PoolFull(rs, type) ==
  LET pool == CASE type \in {"ADD", "SUB"} -> "ADD"
                [] type \in {"MUL", "DIV"} -> "MULT"
                [] type = "LD" -> "LOAD"
  IN \A i \in DOMAIN rs : rs[i].type = pool => rs[i].busy

TwoLoads ==
  /\ config.loadUnits = 1
  /\ Len(program) >= 2
  /\ program[1].type = "LD"
  /\ program[2].type = "LD"

\* C7: a step whose head finds every station of its pool busy leaves the
\* queue as it was and claims no station; a step whose head finds an idle
\* station of its pool issues it; with one load station the second of two
\* loads is issued in the step after the first load's writeback.
C7_StructuralStall ==
  /\ (lastOp = "step" /\ Len(prev.instructionQueue) > 0
        /\ Head(prev.instructionQueue).type \in Timed) =>
       LET h == Head(prev.instructionQueue)
       IN IF PoolFull(prev.reservationStations, h.type)
          THEN /\ instructionQueue = prev.instructionQueue
               /\ \A i \in Stations :
                    ~prev.reservationStations[i].busy
                      => reservationStations[i] = prev.reservationStations[i]
               /\ \A i \in Stations :
                    reservationStations[i].busy =>
                      reservationStations[i].instruction
                        = prev.reservationStations[i].instruction
          ELSE /\ instructionQueue = Tail(prev.instructionQueue)
               /\ Len(issueLog) > 0
               /\ issueLog[Len(issueLog)].id = h.id
               /\ issueLog[Len(issueLog)].cycle = currentCycle
  /\ TwoLoads =>
       \A m \in DOMAIN issueLog :
         issueLog[m].id = 2 =>
           \E k \in DOMAIN wbLog :
             wbLog[k].id = 1 /\ issueLog[m].cycle = wbLog[k].cycle + 1
  /\ TwoLoads =>
       \A i \in Stations :
         Holds(i, 2) => \E m \in DOMAIN issueLog : issueLog[m].id = 2

\* The second of two loads sits in the only load station, after a stall.
C7_Witness ==
  /\ TwoLoads
  /\ \E i \in Stations : Holds(i, 2)
  /\ \E m \in DOMAIN issueLog : issueLog[m].id = 2 /\ issueLog[m].cycle > 2

\* ----------------------------------------------------------------- C8
Count(log, id) == Cardinality({ k \in DOMAIN log : log[k].id = id })

AllOnce ==
  \A k \in DOMAIN program :
    Count(issueLog, program[k].id) = 1 /\ Count(wbLog, program[k].id) = 1

\* C8: a loaded program of Add/Sub/Mul/Div/Load instructions eventually
\* leaves the engine done (queue empty, no station busy), each instruction
\* issued once and written back once.
C8_Termination ==
  <>((Types(program) \subseteq Timed) => (Done /\ AllOnce))

\* Two divisions sharing the only multiplicative station are both retired.
C8_Witness ==
  /\ Done
  /\ AllOnce
  /\ Len(program) >= 2
  /\ program[1].type = "DIV" /\ program[2].type = "DIV"
  /\ config = SmallConfig

\* ----------------------------------------------------------------- C9
\* C9: no step places a Store in a station of any pool or renames a register
\* for it; a Store at the head stays at the head.
C9_StoreNeverIssued ==
  /\ \A i \in Stations : reservationStations[i].instruction.type # "SD"
  /\ (lastOp = "step" /\ Len(prev.instructionQueue) > 0
        /\ Head(prev.instructionQueue).type = "SD") =>
       /\ instructionQueue = prev.instructionQueue
       /\ \A r \in 0..31 : registers[r].qi = prev.registers[r].qi

\* ---------------------------------------------------------------- C10
PoolSize(rs, type) == Cardinality({ i \in DOMAIN rs : rs[i].type = type })

\* C10: after reset() all 32 registers are 0 with no tag, every station is
\* idle with every field cleared, the cycle counter is 0, the queue and the
\* completed set are empty, and each pool has the stations it had.
C10_Reset ==
  lastOp = "reset" =>
    /\ DOMAIN registers = 0..31
    /\ \A r \in 0..31 : registers[r] = [value |-> Zero, qi |-> NoTag]
    /\ \A i \in Stations :
         LET s == reservationStations[i]
         IN /\ ~s.busy /\ ~s.executing
            /\ s.op = NullOp /\ s.vj = NullNum /\ s.vk = NullNum
            /\ s.qj = NoTag /\ s.qk = NoTag /\ s.dest = NullReg
            /\ s.instruction = NullInstr /\ s.remainingCycles = NullCycles
            /\ s.immediate = NullImm
            /\ s.name = prev.reservationStations[i].name
            /\ s.type = prev.reservationStations[i].type
    /\ Len(reservationStations) = Len(prev.reservationStations)
    /\ PoolSize(reservationStations, "ADD") = config.addUnits
    /\ PoolSize(reservationStations, "MULT") = config.multUnits
    /\ PoolSize(reservationStations, "LOAD") = config.loadUnits
    /\ currentCycle = 0
    /\ instructionQueue = <<>>
    /\ executedInstructions = {}

\* reset() was called in the middle of a run.
C10_Witness ==
  /\ lastOp = "reset"
  /\ prev.currentCycle > 0
  /\ prev.executedInstructions # {}
  /\ \E i \in Stations : prev.reservationStations[i].busy
  /\ \E r \in 0..31 : prev.registers[r].value # Zero
  /\ \E r \in 0..31 : prev.registers[r].qi # NoTag

\* ------------------------------------------------------------------ C11
\* A freshly constructed engine of pool sizes c with memory mem, after
\* loadInstructions(p).
FreshLoaded(c, p, mem) ==
  [registers |-> NewRegisters, reservationStations |-> NewStations(c),
   currentCycle |-> 0, instructionQueue |-> p, memory |-> mem,
   executedInstructions |-> {}]

RECURSIVE FreshRun(_, _)
FreshRun(e, k) == IF k = 0 THEN e ELSE stepOf(FreshRun(e, k - 1))

\* The calls since the last reset() are one loadInstructions, then steps.
LoadThenSteps ==
  /\ Len(calls) >= 1
  /\ calls[1] = "load"
  /\ \A i \in 2..Len(calls) : calls[i] = "step"

\* C11: whenever the engine was reset, then loaded with the program and
\* stepped k times (k >= 0), its registers, stations, memory and cycle
\* counter are those of a freshly constructed engine with the same pool
\* sizes and memory after the same load and k steps.
C11_IdempotentReset ==
  (resets > 0 /\ LoadThenSteps) =>
     LET f == FreshRun(FreshLoaded(config, program, DefaultMemory),
                       Len(calls) - 1)
     IN /\ registers = f.registers
        /\ reservationStations = f.reservationStations
        /\ memory = f.memory
        /\ currentCycle = f.currentCycle

\* A replay after a reset that followed a retirement, now two steps in with
\* a station busy again.
C11_Witness ==
  /\ resets > 0
  /\ LoadThenSteps
  /\ Len(calls) >= 3
  /\ loads >= 2
  /\ \E i \in Stations : reservationStations[i].busy
  /\ \E r \in 0..(NumRegisters - 1) : registers[r].qi # NoTag

\* ------------------------------------------------------------------ C12
\* The head of queue q is an instruction of the completed set ex.
RetiredHead(q, ex) == Len(q) > 0 /\ Head(q).id \in ex

\* C12: when the head of the queue is in the completed set, the issue phase
\* of step() returns false with the stations and registers it was given;
\* after such a step the queue is as before, no station that was idle is
\* busy and no register carries a tag it did not carry before.
C12_RetiredHeadRejected ==
  /\ RetiredHead(instructionQueue, executedInstructions) =>
        /\ ~IssueHead.ok
        /\ ~IssueHead.threw
        /\ IssueHead.rs = reservationStations
        /\ IssueHead.registers = registers
  /\ (lastOp = "step"
        /\ RetiredHead(prev.instructionQueue, prev.executedInstructions)) =>
        /\ instructionQueue = prev.instructionQueue
        /\ \A i \in Stations :
              reservationStations[i].busy => prev.reservationStations[i].busy
        /\ \A r \in 0..(NumRegisters - 1) :
              registers[r].qi # NoTag => registers[r].qi = prev.registers[r].qi

\* A step whose head was retired although a station of its pool was idle.
C12_Witness ==
  /\ lastOp = "step"
  /\ RetiredHead(prev.instructionQueue, prev.executedInstructions)
  /\ \E i \in Stations :
        /\ prev.reservationStations[i].type
              = PoolOf(Head(prev.instructionQueue).type)
        /\ ~prev.reservationStations[i].busy

\* ------------------------------------------------------------------ C13
\* C13: after a step() that failed with an error while issuing the head,
\* every station has the fields it had before the call.
C13_FailedStepAtomic ==
  lastOp = "throw" => reservationStations = prev.reservationStations

\* ------------------------------------------------------------------ C14
\* The writebacks of loads whose address has no memory entry.
UnsetLoads ==
  { k \in DOMAIN wbLog :
      /\ wbLog[k].op = "LD"
      /\ program[wbLog[k].id].immediate \notin DOMAIN memory }

\* C14: memory holds the entries it was initialized with after every step()
\* and reset(), whatever the program (stores included), and a load of an
\* address with no entry commits 0.
C14_MemoryConstant ==
  /\ memory = DefaultMemory
  /\ prev.memory = DefaultMemory
  /\ \A k \in UnsetLoads : wbLog[k].result = Zero

\* A load of an unset address has written back in a program holding a store,
\* and the register it names holds the 0.
C14_Witness ==
  /\ \E i \in DOMAIN program : program[i].type = "SD"
  /\ \E k \in UnsetLoads :
        /\ wbLog[k].cycle = currentCycle
        /\ registers[RegIndex(wbLog[k].dest)].value = Zero

\* ------------------------------------------------------------------ C15
\* The number of step() calls since construction or the last reset().
StepCalls == Cardinality({ i \in DOMAIN calls : calls[i] = "step" })

\* C15: the cycle counter equals the number of step() calls since
\* construction or the last reset(), and a step() that completed left it
\* one above what it was, whether it issued, stalled or found the engine
\* quiescent.
C15_CycleCounter ==
  /\ currentCycle = StepCalls
  /\ lastOp = "step" => currentCycle = prev.currentCycle + 1

\* A step() taken in the quiescent state, the first call after a reset().
C15_Witness ==
  /\ lastOp = "step"
  /\ resets > 0
  /\ Len(prev.instructionQueue) = 0
  /\ \A i \in Stations : ~prev.reservationStations[i].busy
  /\ currentCycle = 1

\* ------------------------------------------------------------------ C16
\* The writebacks of the step just taken.
ThisStep == { k \in DOMAIN wbLog : wbLog[k].cycle = currentCycle }

\* The writebacks of the step just taken that no later writeback of the same
\* step followed on the same register.
LastWrites ==
  { k \in ThisStep :
      \A m \in ThisStep : m > k => wbLog[m].dest # wbLog[k].dest }

\* C16: after a step, the destination register of every station that wrote
\* back in it holds the station's result and no tag, whatever tag the
\* register carried before the step.
C16_UnconditionalCommit ==
  lastOp = "step" =>
    \A k \in LastWrites :
      /\ registers[RegIndex(wbLog[k].dest)].value = wbLog[k].result
      /\ registers[RegIndex(wbLog[k].dest)].qi = NoTag

\* A station wrote back into a register that named another station, issued
\* later and still busy.
C16_Witness ==
  /\ lastOp = "step"
  /\ \E k \in LastWrites : \E j \in Stations :
        /\ j # wbLog[k].station
        /\ prev.registers[RegIndex(wbLog[k].dest)].qi
             = reservationStations[j].name
        /\ reservationStations[j].busy
        /\ reservationStations[j].instruction.id > wbLog[k].id
        /\ registers[RegIndex(wbLog[k].dest)].value = wbLog[k].result
        /\ registers[RegIndex(wbLog[k].dest)].qi = NoTag

\* ------------------------------------------------------------------ C17
\* Station st holds source register src, as regs has it, in operand fields
\* q and v: the tag and no value where the register has a tag, the value and
\* no tag otherwise.
Captured(regs, src, q, v) ==
  src # NullReg =>
    IF regs[RegIndex(src)].qi # NoTag
    THEN q = regs[RegIndex(src)].qi /\ v = NullNum
    ELSE q = NoTag /\ v = regs[RegIndex(src)].value

\* C17: the station a successful issue fills holds, for each source register
\* of the instruction, the register's tag and no value if the register has a
\* tag at that moment, else its value and no tag, both read before the
\* destination is renamed; and no busy station waits on its own name.
C17_OperandCapture ==
  /\ (Len(instructionQueue) > 0 /\ IssueHead.ok) =>
        LET in == Head(instructionQueue)
            st == IssueHead.rs[IssueHead.station]
        IN /\ Captured(registers, in.src1, st.qj, st.vj)
           /\ Captured(registers, in.src2, st.qk, st.vk)
           /\ IssueHead.registers[RegIndex(in.dest)].qi = st.name
  /\ \A i \in Stations :
        reservationStations[i].busy =>
          /\ reservationStations[i].qj # reservationStations[i].name
          /\ reservationStations[i].qk # reservationStations[i].name

\* The step just issued an instruction whose second source is its
\* destination: the station waits on the register's earlier producer for it,
\* holds the value of the untagged first source, and the register now names
\* the station.
C17_Witness ==
  /\ lastOp = "step"
  /\ Len(issueLog) > 0
  /\ issueLog[Len(issueLog)].cycle = currentCycle
  /\ LET i == issueLog[Len(issueLog)].station
         in == program[issueLog[Len(issueLog)].id]
     IN /\ in.src2 = in.dest
        /\ in.src1 # NullReg
        /\ prev.registers[RegIndex(in.src2)].qi # NoTag
        /\ reservationStations[i].qk = prev.registers[RegIndex(in.src2)].qi
        /\ reservationStations[i].vk = NullNum
        /\ prev.registers[RegIndex(in.src1)].qi = NoTag
        /\ reservationStations[i].qj = NoTag
        /\ reservationStations[i].vj = prev.registers[RegIndex(in.src1)].value
        /\ registers[RegIndex(in.dest)].qi = reservationStations[i].name

\* ------------------------------------------------------------------ C18
\* The stations that held tag name as operand 1 (J) or 2 (K) when the
\* writeback phase of the step just taken began: those that held it before
\* the step, and the station the step issued if the source register named it.
IssuedNow ==
  IF Len(issueLog) > 0 /\ issueLog[Len(issueLog)].cycle = currentCycle
  THEN {issueLog[Len(issueLog)]} ELSE {}

HeldJ(name) ==
  { j \in Stations : prev.reservationStations[j].busy
                       /\ prev.reservationStations[j].qj = name }
  \cup { l.station : l \in { l \in IssuedNow :
            /\ program[l.id].src1 # NullReg
            /\ prev.registers[RegIndex(program[l.id].src1)].qi = name } }

HeldK(name) ==
  { j \in Stations : prev.reservationStations[j].busy
                       /\ prev.reservationStations[j].qk = name }
  \cup { l.station : l \in { l \in IssuedNow :
            /\ program[l.id].src2 # NullReg
            /\ prev.registers[RegIndex(program[l.id].src2)].qi = name } }

\* C18: after a step in which station S wrote back result v, S is idle, no
\* busy station holds S's name as an operand tag, and every station that
\* held it as tag 1 or 2 has no such tag and v as the operand value.
C18_BroadcastComplete ==
  lastOp = "step" =>
    \A k \in ThisStep :
      LET S == wbLog[k].station
          name == reservationStations[S].name
          v == wbLog[k].result
      IN /\ ~reservationStations[S].busy
         /\ \A j \in Stations :
               reservationStations[j].busy =>
                 /\ reservationStations[j].qj # name
                 /\ reservationStations[j].qk # name
         /\ \A j \in HeldJ(name) :
               /\ reservationStations[j].busy
               /\ reservationStations[j].qj = NoTag
               /\ reservationStations[j].vj = v
         /\ \A j \in HeldK(name) :
               /\ reservationStations[j].busy
               /\ reservationStations[j].qk = NoTag
               /\ reservationStations[j].vk = v

\* A writeback reached two waiting stations, one of them through both of
\* its operands.
C18_Witness ==
  /\ lastOp = "step"
  /\ \E k \in ThisStep :
        LET name == reservationStations[wbLog[k].station].name
        IN /\ Cardinality(HeldJ(name) \cup HeldK(name)) >= 2
           /\ HeldJ(name) \cap HeldK(name) # {}
           /\ \A j \in HeldK(name) :
                 reservationStations[j].vk = wbLog[k].result

\* ------------------------------------------------------------------ C19
\* Exactly one of value v and tag q is set.
ExactlyOne(v, q) == (v # NullNum) # (q # NoTag)

\* Station st held value v before the step just taken and has not been
\* cleared since: it still holds v.
KeepsValue(old, new, v, w) ==
  (old.busy /\ new.busy /\ v # NullNum) => w = v

\* C19: each operand of a busy ADD/SUB/MUL/DIV station has exactly one of
\* value and tag set; a busy load station has no operand value and no tag;
\* an operand value that is set stays as it is until the station is cleared.
C19_ValueTagExclusive ==
  \A i \in Stations :
    LET st == reservationStations[i]
        old == prev.reservationStations[i]
    IN /\ (st.busy /\ st.op \in {"ADD", "SUB", "MUL", "DIV"}) =>
            ExactlyOne(st.vj, st.qj) /\ ExactlyOne(st.vk, st.qk)
       /\ (st.busy /\ st.type = "LOAD") =>
            /\ st.vj = NullNum /\ st.vk = NullNum
            /\ st.qj = NoTag /\ st.qk = NoTag
       /\ KeepsValue(old, st, old.vj, st.vj)
       /\ KeepsValue(old, st, old.vk, st.vk)

\* ------------------------------------------------------------------ C20
\* The pool of each kind of instruction.
KindPool(type) ==
  CASE type \in {"ADD", "SUB"} -> "ADD"
    [] type \in {"MUL", "DIV"} -> "MULT"
    [] type = "LD" -> "LOAD"

\* The issues of ADD, SUB, MUL, DIV and LD instructions in the step just
\* taken.
KindIssuedNow == { l \in IssuedNow : program[l.id].type \in Timed }

\* C20: the station a successful issue of an ADD/SUB, MUL/DIV or LD claims
\* was idle before the step, belongs to the pool of the instruction's kind,
\* and every station of that pool before it was busy.
C20_AllocationOrder ==
  lastOp = "step" =>
    \A l \in KindIssuedNow :
      LET pool == KindPool(program[l.id].type)
      IN /\ ~prev.reservationStations[l.station].busy
         /\ prev.reservationStations[l.station].type = pool
         /\ reservationStations[l.station].type = pool
         /\ \A j \in Stations :
               (j < l.station /\ prev.reservationStations[j].type = pool)
                 => prev.reservationStations[j].busy

\* An issue into the second station of a pool whose first was busy and
\* whose third was idle.
C20_Witness ==
  /\ lastOp = "step"
  /\ \E l \in KindIssuedNow :
        LET pool == KindPool(program[l.id].type)
        IN /\ prev.reservationStations[l.station].type = pool
           /\ prev.reservationStations[l.station].name[2] = 2
           /\ prev.reservationStations[l.station - 1].busy
           /\ \E j \in Stations :
                 /\ j > l.station
                 /\ prev.reservationStations[j].type = pool
                 /\ ~prev.reservationStations[j].busy

\* ------------------------------------------------------------------ C21
\* The stations named name.
Named(name) == { i \in Stations : reservationStations[i].name = name }

\* C21: a register that carries a tag names a station that is busy and has
\* that register as its destination.
C21_NoDanglingRegisterTag ==
  \A r \in 0..(NumRegisters - 1) :
    registers[r].qi # NoTag =>
      /\ Named(registers[r].qi) # {}
      /\ \A i \in Named(registers[r].qi) :
            /\ reservationStations[i].busy
            /\ reservationStations[i].dest = r

\* A station has written back and is idle, another is still busy and named
\* by its destination register, and the register of the first has no tag.
C21_Witness ==
  /\ lastOp = "step"
  /\ ThisStep # {}
  /\ \A k \in ThisStep : registers[RegIndex(wbLog[k].dest)].qi = NoTag
  /\ \E r \in 0..(NumRegisters - 1) :
        /\ registers[r].qi # NoTag
        /\ \E i \in Named(registers[r].qi) :
              reservationStations[i].busy /\ reservationStations[i].dest = r

\* ------------------------------------------------------------------ C22
\* The operand tags station i holds.
TagsOf(i) ==
  {reservationStations[i].qj, reservationStations[i].qk} \ {NoTag}

\* C22: every operand tag a busy station holds names another station, which
\* is busy and was issued before the holder.
C22_NoDanglingOperandTag ==
  \A i \in Stations :
    reservationStations[i].busy =>
      \A t \in TagsOf(i) :
        /\ Named(t) # {}
        /\ \A j \in Named(t) :
              /\ j # i
              /\ reservationStations[j].busy
              /\ LastIssue(j) # 0
              /\ LastIssue(j) < LastIssue(i)

\* A busy station waits on a busy station, which itself waits on a third.
C22_Witness ==
  \E i, j \in Stations :
    /\ i # j
    /\ reservationStations[i].busy
    /\ reservationStations[j].busy
    /\ reservationStations[j].name \in TagsOf(i)
    /\ TagsOf(j) # {}

\* ------------------------------------------------------------------ C23
\* Station st waits: a tag is outstanding, it is not executing and no
\* latency has been assigned.
Waiting(st) ==
  /\ st.qj # NoTag \/ st.qk # NoTag
  /\ ~st.executing
  /\ st.remainingCycles = NullCycles

\* Station st runs: no tag is outstanding, it is executing and between 1 and
\* the latency of its operation remain.
Running(st) ==
  /\ st.qj = NoTag /\ st.qk = NoTag
  /\ st.executing
  /\ st.remainingCycles \in 1..Latency(st.op)

\* C23: between steps, every busy station holding an ADD, SUB, MUL, DIV or
\* LD either waits or runs, and none has remaining latency 0.
C23_StationStates ==
  \A i \in Stations :
    LET st == reservationStations[i]
    IN (st.busy /\ st.op \in Timed) =>
         /\ Waiting(st) \/ Running(st)
         /\ st.remainingCycles # 0

\* After a step in which a station wrote back, one station waits and one is
\* at its last cycle.
C23_Witness ==
  /\ lastOp = "step"
  /\ ThisStep # {}
  /\ \E i, j \in Stations :
        /\ reservationStations[i].busy /\ reservationStations[i].op \in Timed
        /\ Waiting(reservationStations[i])
        /\ reservationStations[j].busy /\ reservationStations[j].op \in Timed
        /\ Running(reservationStations[j])
        /\ reservationStations[j].remainingCycles = 1

\* ------------------------------------------------------------------ C24
\* The engine was quiescent before the last call.
WasQuiescent ==
  /\ Len(prev.instructionQueue) = 0
  /\ \A i \in Stations : ~prev.reservationStations[i].busy

\* C24: a step() taken with the queue empty and no station busy leaves the
\* registers, stations, memory, queue and completed set as they were, adds
\* one to the cycle counter, and the engine is quiescent after it.
C24_QuiescenceStable ==
  (lastOp = "step" /\ WasQuiescent) =>
    /\ registers = prev.registers
    /\ reservationStations = prev.reservationStations
    /\ memory = prev.memory
    /\ instructionQueue = prev.instructionQueue
    /\ executedInstructions = prev.executedInstructions
    /\ currentCycle = prev.currentCycle + 1
    /\ Len(instructionQueue) = 0
    /\ \A i \in Stations : ~reservationStations[i].busy

\* A step() taken in the quiescent state a completed run left, two steps
\* after the last writeback.
C24_Witness ==
  /\ lastOp = "step"
  /\ WasQuiescent
  /\ executedInstructions # {}
  /\ \E r \in 0..(NumRegisters - 1) : registers[r].value # Zero
  /\ Len(wbLog) > 0
  /\ wbLog[Len(wbLog)].cycle + 2 <= currentCycle

\* ------------------------------------------------------------------ C25
\* C25: a step() taken while the head of the queue is in the completed set
\* leaves the queue as it is and issues nothing, and the head is in the
\* completed set after it: the queue stays blocked through every later
\* step() until reset() or loadInstructions() is called.
C25_RetiredHeadBlocks ==
  (lastOp = "step"
     /\ RetiredHead(prev.instructionQueue, prev.executedInstructions)) =>
    /\ instructionQueue = prev.instructionQueue
    /\ IssuedNow = {}
    /\ RetiredHead(instructionQueue, executedInstructions)

\* The third step in a row behind a retired head, with another instruction
\* waiting behind it and an idle station of that instruction's pool, and no
\* station busy any more.
C25_Witness ==
  /\ lastOp = "step"
  /\ Len(calls) >= 4
  /\ \A k \in (Len(calls) - 2)..Len(calls) : calls[k] = "step"
  /\ calls[Len(calls) - 3] = "load"
  /\ RetiredHead(instructionQueue, executedInstructions)
  /\ Len(instructionQueue) >= 2
  /\ instructionQueue[2].id \notin executedInstructions
  /\ \A i \in Stations : ~reservationStations[i].busy
  /\ Len(issueLog) = 1

====
